---- MODULE Spec2Model ----
(***************************************************************************)
(* Model of the documentation generator: the ignore filter loaded from     *)
(* .ignoreconfig, the recursive directory walk driven by fs.readdir and    *)
(* fs.stat callbacks, and the per-file addDocumentation coroutine in its   *)
(* two variants (src/index.js replaces the file with the trimmed backend   *)
(* response, src/unnamed/part_000 and src/tests/Test.js prepend it as a    *)
(* block comment).                                                         *)
(*                                                                         *)
(* Strings are sequences of one-character strings, so that split, trim,    *)
(* includes, endsWith and join are computed character by character.        *)
(***************************************************************************)
EXTENDS Integers, Sequences, FiniteSets, TLC

VARIABLES
    policy,          \* which variant of the script runs: "Replace" | "Prepend"
    configFile,      \* .ignoreconfig in the working directory (environment)
    tree,            \* the directory tree under the working directory (environment)
    content,         \* current content of every path that is a file
    pc,              \* "init" | "running" | "crashed"
    ignorePatterns,  \* the module-level list of patterns
    readdirPending,  \* path -> number of fs.readdir calls awaiting their callback
    statPending,     \* <<dir, file>> -> number of fs.stat calls awaiting their callback
    invocations,     \* addDocumentation invocations suspended at the backend await
    enumerated,      \* history: path -> number of fs.readdir calls issued on it
    checked,         \* history: results of the walker's shouldIgnore calls
    invoked,         \* history: path -> number of addDocumentation invocations
    requests,        \* history: path -> number of model.generateContent calls
    finished,        \* history: ended addDocumentation invocations
    log              \* console output, as a set of [kind, path] entries

vars == <<policy, configFile, tree, content, pc, ignorePatterns, readdirPending,
          statPending, invocations, enumerated, checked, invoked, requests,
          finished, log>>

----------------------------------------------------------------------------
(* Characters and string helpers *)

NL == "\n"
SP == " "
HASH == "#"
SEP == "/"

\* the characters String.prototype.trim removes that the model's alphabet has
IsSpace(c) == c \in {" ", "\t", "\r", "\n"}

\* s.startsWith(p)
StartsWith(s, p) == Len(p) <= Len(s) /\ SubSeq(s, 1, Len(p)) = p

\* s.endsWith(p)
EndsWith(s, p) == Len(p) <= Len(s) /\ SubSeq(s, Len(s) - Len(p) + 1, Len(s)) = p

\* faulty variant of includes: matches at offset 0 only (startsWith)
IncludesPrefixOnly(s, p) == Len(p) <= Len(s) /\ SubSeq(s, 1, Len(p)) = p
\* s.includes(p): p occurs at some offset k of s
Includes(s, p) == \E k \in 0..(Len(s) - Len(p)) : SubSeq(s, k + 1, k + Len(p)) = p

\* s.split("\n"): always at least one line; "" splits into [""]
RECURSIVE SplitFrom(_, _, _)
SplitFrom(s, i, cur) ==
    IF i > Len(s) THEN <<cur>>
    ELSE IF s[i] = NL THEN <<cur>> \o SplitFrom(s, i + 1, <<>>)
    ELSE SplitFrom(s, i + 1, Append(cur, s[i]))
Split(s) == SplitFrom(s, 1, <<>>)

\* lines.join("\n")
RECURSIVE Join(_)
Join(lines) ==
    IF Len(lines) = 0 THEN <<>>
    ELSE IF Len(lines) = 1 THEN lines[1]
    ELSE lines[1] \o <<NL>> \o Join(Tail(lines))

\* line.trim()
RECURSIVE TrimStart(_)
TrimStart(s) == IF Len(s) > 0 /\ IsSpace(s[1]) THEN TrimStart(Tail(s)) ELSE s
RECURSIVE TrimEnd(_)
TrimEnd(s) ==
    IF Len(s) > 0 /\ IsSpace(s[Len(s)]) THEN TrimEnd(SubSeq(s, 1, Len(s) - 1)) ELSE s
Trim(s) == TrimEnd(TrimStart(s))

\* docLines.slice(from, to) with 0 <= from, zero-based, end exclusive
Slice(lines, from, to) == SubSeq(lines, from + 1, to)

\* lines.map(line => line.trim())
TrimAll(lines) == [i \in 1..Len(lines) |-> Trim(lines[i])]

\* all sequences over S of length at most n
RECURSIVE SeqsUpTo(_, _)
SeqsUpTo(S, n) ==
    IF n = 0 THEN {<<>>}
    ELSE LET shorter == SeqsUpTo(S, n - 1)
         IN  shorter \cup {Append(s, c) : s \in shorter, c \in S}

----------------------------------------------------------------------------
(* The environment: configuration file and directory tree *)

\* process.cwd()
Root == <<"r">>

\* path.join(dir, file) for an entry name returned by readdir
PathJoin(dir, file) == dir \o <<SEP>> \o file

Node(parent, name, kind) == [parent |-> parent, name |-> name, kind |-> kind]

Paths(t) == {Root} \cup {PathJoin(n.parent, n.name) : n \in t}
Entries(t) == {<<n.parent, n.name>> : n \in t}

\* what fs.stat reports for an existing path: "dir" | "file" | "other"
KindOf(t, p) ==
    IF p = Root THEN "dir"
    ELSE (CHOOSE n \in t : PathJoin(n.parent, n.name) = p).kind

\* the names fs.readdir(dir) passes to its callback
Readdir(t, dir) == {n.name : n \in {m \in t : m.parent = dir}}

NoConfig == [exists |-> FALSE, readable |-> FALSE, text |-> <<>>]
BadConfig == [exists |-> TRUE, readable |-> FALSE, text |-> <<>>]
ConfigText(text) == [exists |-> TRUE, readable |-> TRUE, text |-> text]

----------------------------------------------------------------------------
(* Ignore filter *)

\* faulty variant of the filter callback: the "#" test is missing
KeepLineNoCommentCheck(line) == line # <<>>
\* the filter callback: line && !line.startsWith("#")
KeepLine(line) == line # <<>> /\ ~StartsWith(line, <<HASH>>)

\* readFileSync(...).split("\n").map(trim).filter(...)
ParsePatterns(text) == SelectSeq(TrimAll(Split(text)), KeepLine)

\* faulty variant of the load: readFileSync without the existsSync guard
LoadNoExistsCheck(cfg) ==
    IF cfg.readable
    THEN [threw |-> FALSE, patterns |-> ParsePatterns(cfg.text)]
    ELSE [threw |-> TRUE, patterns |-> <<>>]
\* the top-level if: [threw, patterns] after lines 11-18
LoadIgnorePatterns(cfg) ==
    IF cfg.exists
    THEN IF cfg.readable
         THEN [threw |-> FALSE, patterns |-> ParsePatterns(cfg.text)]
         ELSE [threw |-> TRUE, patterns |-> <<>>]
    ELSE [threw |-> FALSE, patterns |-> <<>>]

\* ignorePatterns.some(pattern => filePath.includes(pattern))
ShouldIgnore(filePath) ==
    \E i \in 1..Len(ignorePatterns) : Includes(filePath, ignorePatterns[i])

\* faulty variant of the scan: a loop that consumes the list with shift()
PatternsAfterConsumingScan(patterns) == <<>>
\* the list after shouldIgnore has run: Array.prototype.some does not modify it
PatternsAfterScan(patterns) == patterns

----------------------------------------------------------------------------
(* Annotator transformations *)

JS == <<".", "j", "s">>
TS == <<".", "t", "s">>

\* faulty variants of the suffix test: missing, and ".js" only
EligibleAnyName(file) == TRUE
EligibleJsOnly(file) == EndsWith(file, JS)
\* file.endsWith(".js") || file.endsWith(".ts")
Eligible(file) == EndsWith(file, JS) \/ EndsWith(file, TS)

\* faulty variants of the walker's guard: missing, and inverted
SkipNothing(filePath) == FALSE
WalkerSkipsInverted(filePath) == ~ShouldIgnore(filePath)
\* the walker's guard before fs.stat: if (shouldIgnore(filePath)) return
WalkerSkips(filePath) == ShouldIgnore(filePath)

\* faulty variant of the recursive call: processFilesRecursively(dir)
RecurseIntoParent(dir, filePath) == dir
\* the argument of the recursive call: processFilesRecursively(filePath)
RecurseTarget(dir, filePath) == filePath

\* faulty variant of the trim: slice(0, length - 2) keeps the first line
TrimDocLinesKeepFirst(docLines) ==
    IF Len(docLines) > 2 THEN Slice(docLines, 0, Len(docLines) - 2) ELSE docLines
\* docLines after the if: slice(1, length - 2) when length > 2
TrimDocLines(docLines) ==
    IF Len(docLines) > 2 THEN Slice(docLines, 1, Len(docLines) - 2) ELSE docLines

TooShort(aiGeneratedDocs) == ~(Len(Split(aiGeneratedDocs)) > 2)

\* variant of the Replace policy that keeps the file when the answer is too short
ReplaceSkipsShort(aiGeneratedDocs, fileContent) ==
    IF TooShort(aiGeneratedDocs) THEN fileContent
    ELSE Join(TrimDocLines(Split(aiGeneratedDocs)))
\* Replace policy: split, trim, join; fileContent is not used
ReplaceContent(aiGeneratedDocs, fileContent) ==
    Join(TrimDocLines(Split(aiGeneratedDocs)))

\* faulty variant of the Prepend policy: the original content is dropped
PrependDocsOnly(aiGeneratedDocs, fileContent) ==
    <<"/", "*", NL>> \o aiGeneratedDocs \o <<NL, "*", "/", NL, NL>>
\* Prepend policy: `/*\n${aiGeneratedDocs}\n*/\n\n${fileContent}`
PrependContent(aiGeneratedDocs, fileContent) ==
    <<"/", "*", NL>> \o aiGeneratedDocs \o <<NL, "*", "/", NL, NL>> \o fileContent

UpdatedContent(pol, aiGeneratedDocs, fileContent) ==
    IF pol = "Replace"
    THEN ReplaceContent(aiGeneratedDocs, fileContent)
    ELSE PrependContent(aiGeneratedDocs, fileContent)

LogEntry(kind, path) == [kind |-> kind, path |-> path]

\* without the try/catch a rejected await is an unhandled rejection of the
\* async stat callback and ends the process
PcAfterUncaughtError == "crashed"
\* the process after addDocumentation's catch block has handled a rejected await
PcAfterCaughtError == "running"

\* faulty variant of the readdir error branch: throw err in the callback
PcAfterReaddirThrow == "crashed"
\* the process after the readdir callback has logged err and returned
PcAfterReaddirError == "running"

\* faulty variant of the stat error branch: throw err in the callback
PcAfterStatThrow == "crashed"
\* the process after the stat callback has logged err and returned
PcAfterStatError == "running"

\* faulty variant of the await: one shared slot holds the pending request
SuspendAlone(inflight, inv) == {inv}
\* the suspended coroutines once inv awaits model.generateContent: the others
\* stay suspended, each on its own promise
Suspend(inflight, inv) == inflight \cup {inv}

----------------------------------------------------------------------------
(* Initial states: the script has been loaded and nothing has run yet *)

InitWith(policies, configs, trees, contents) ==
    /\ policy \in policies
    /\ configFile \in configs
    /\ tree \in trees
    /\ \E c \in contents : content = [p \in Paths(tree) |-> c]
    /\ pc = "init"
    /\ ignorePatterns = <<>>
    /\ readdirPending = [p \in Paths(tree) |-> 0]
    /\ statPending = [e \in Entries(tree) |-> 0]
    /\ invocations = {}
    /\ enumerated = [p \in Paths(tree) |-> 0]
    /\ checked = {}
    /\ invoked = [p \in Paths(tree) |-> 0]
    /\ requests = [p \in Paths(tree) |-> 0]
    /\ finished = {}
    /\ log = {}

----------------------------------------------------------------------------
(* Actions *)

\* Top level of the script: load .ignoreconfig, then processFilesRecursively(cwd),
\* which issues fs.readdir on the working directory.  A readFileSync that throws
\* is uncaught and ends the process before the walk starts.
Startup ==
    /\ pc = "init"
    /\ LET loaded == LoadIgnorePatterns(configFile) IN
        IF loaded.threw
        THEN /\ pc' = "crashed"
             /\ UNCHANGED <<ignorePatterns, readdirPending, enumerated>>
        ELSE /\ pc' = "running"
             /\ ignorePatterns' = loaded.patterns
             /\ readdirPending' = [readdirPending EXCEPT ![Root] = @ + 1]
             /\ enumerated' = [enumerated EXCEPT ![Root] = @ + 1]
    /\ UNCHANGED <<policy, configFile, tree, content, statPending, invocations,
                   checked, invoked, requests, finished, log>>

\* fs.readdir callback with err set
ReaddirErr(dir) ==
    /\ pc = "running"
    /\ readdirPending[dir] > 0
    /\ readdirPending' = [readdirPending EXCEPT ![dir] = @ - 1]
    /\ log' = log \cup {LogEntry("readdir_error", dir)}
    /\ pc' = PcAfterReaddirError
    /\ UNCHANGED <<policy, configFile, tree, content, ignorePatterns,
                   statPending, invocations, enumerated, checked, invoked,
                   requests, finished>>

\* fs.readdir callback with the listing: the whole forEach runs synchronously,
\* issuing fs.stat on every entry the ignore filter lets through
ReaddirOk(dir) ==
    /\ pc = "running"
    /\ readdirPending[dir] > 0
    /\ KindOf(tree, dir) = "dir"
    /\ readdirPending' = [readdirPending EXCEPT ![dir] = @ - 1]
    /\ LET files == Readdir(tree, dir) IN
        /\ statPending' =
              [e \in DOMAIN statPending |->
                  IF e[1] = dir /\ e[2] \in files /\ ~WalkerSkips(PathJoin(dir, e[2]))
                  THEN statPending[e] + 1
                  ELSE statPending[e]]
        /\ checked' = checked \cup
              {[path |-> PathJoin(dir, file),
                ignored |-> ShouldIgnore(PathJoin(dir, file))] : file \in files}
    /\ ignorePatterns' = PatternsAfterScan(ignorePatterns)
    /\ UNCHANGED <<policy, configFile, tree, content, pc,
                   invocations, enumerated, invoked, requests, finished, log>>

\* fs.stat callback with err set
StatErr(dir, file) ==
    /\ pc = "running"
    /\ statPending[<<dir, file>>] > 0
    /\ statPending' = [statPending EXCEPT ![<<dir, file>>] = @ - 1]
    /\ log' = log \cup {LogEntry("stat_error", PathJoin(dir, file))}
    /\ pc' = PcAfterStatError
    /\ UNCHANGED <<policy, configFile, tree, content, ignorePatterns,
                   readdirPending, invocations, enumerated, checked, invoked,
                   requests, finished>>

\* fs.stat callback, stats.isDirectory(): processFilesRecursively(filePath)
StatDirectory(dir, file) ==
    /\ pc = "running"
    /\ statPending[<<dir, file>>] > 0
    /\ KindOf(tree, PathJoin(dir, file)) = "dir"
    /\ statPending' = [statPending EXCEPT ![<<dir, file>>] = @ - 1]
    /\ LET target == RecurseTarget(dir, PathJoin(dir, file)) IN
        /\ readdirPending' = [readdirPending EXCEPT ![target] = @ + 1]
        /\ enumerated' = [enumerated EXCEPT ![target] = @ + 1]
    /\ UNCHANGED <<policy, configFile, tree, content, pc, ignorePatterns,
                   invocations, checked, invoked, requests, finished, log>>

\* fs.stat callback, not a directory and the name has no recognized suffix
StatNoMatch(dir, file) ==
    /\ pc = "running"
    /\ statPending[<<dir, file>>] > 0
    /\ KindOf(tree, PathJoin(dir, file)) # "dir"
    /\ ~Eligible(file)
    /\ statPending' = [statPending EXCEPT ![<<dir, file>>] = @ - 1]
    /\ UNCHANGED <<policy, configFile, tree, content, pc, ignorePatterns,
                   readdirPending, invocations, enumerated, checked, invoked,
                   requests, finished, log>>

\* fs.stat callback, not a directory and the name ends in .js or .ts:
\* addDocumentation(filePath) runs synchronously up to its first await.
\* readOk = FALSE: readFileSync throws, the catch logs it and the invocation ends.
\* readOk = TRUE: model.generateContent(prompt) is called and the invocation
\* suspends holding the content it read.
StatFile(dir, file, readOk) ==
    /\ pc = "running"
    /\ statPending[<<dir, file>>] > 0
    /\ KindOf(tree, PathJoin(dir, file)) # "dir"
    /\ Eligible(file)
    /\ statPending' = [statPending EXCEPT ![<<dir, file>>] = @ - 1]
    /\ LET filePath == PathJoin(dir, file)
           id == invoked[filePath] + 1
       IN
        /\ invoked' = [invoked EXCEPT ![filePath] = id]
        /\ IF readOk
           THEN /\ invocations' = Suspend(invocations,
                      [path |-> filePath, id |-> id, fileContent |-> content[filePath]])
                /\ requests' = [requests EXCEPT ![filePath] = @ + 1]
                /\ UNCHANGED <<finished, log>>
           ELSE /\ finished' = finished \cup
                      {[path |-> filePath, id |-> id, before |-> content[filePath],
                        answered |-> FALSE, response |-> <<>>,
                        result |-> "read_failed", after |-> content[filePath]]}
                /\ log' = log \cup {LogEntry("process_error", filePath)}
                /\ UNCHANGED <<invocations, requests>>
    /\ UNCHANGED <<policy, configFile, tree, content, pc, ignorePatterns,
                   readdirPending, enumerated, checked>>

\* the await on model.generateContent rejects, or response.text() throws
BackendErr(inv) ==
    /\ pc = "running"
    /\ inv \in invocations
    /\ invocations' = invocations \ {inv}
    /\ finished' = finished \cup
          {[path |-> inv.path, id |-> inv.id, before |-> inv.fileContent,
            answered |-> FALSE, response |-> <<>>,
            result |-> "backend_failed", after |-> content[inv.path]]}
    /\ log' = log \cup {LogEntry("process_error", inv.path)}
    /\ pc' = PcAfterCaughtError
    /\ UNCHANGED <<policy, configFile, tree, content, ignorePatterns,
                   readdirPending, statPending, enumerated, checked, invoked,
                   requests>>

\* the await resolves with text aiGeneratedDocs: transform, then writeFileSync
\* (writeOk = FALSE: it throws and the catch logs it)
BackendOk(inv, aiGeneratedDocs, writeOk) ==
    /\ pc = "running"
    /\ inv \in invocations
    /\ invocations' = invocations \ {inv}
    /\ LET updatedContent == UpdatedContent(policy, aiGeneratedDocs, inv.fileContent)
           warned == IF policy = "Replace" /\ TooShort(aiGeneratedDocs)
                     THEN {LogEntry("too_short", inv.path)} ELSE {}
       IN
        /\ content' = IF writeOk THEN [content EXCEPT ![inv.path] = updatedContent]
                      ELSE content
        /\ log' = log \cup warned \cup
              {LogEntry(IF writeOk THEN "added" ELSE "process_error", inv.path)}
        /\ finished' = finished \cup
              {[path |-> inv.path, id |-> inv.id, before |-> inv.fileContent,
                answered |-> TRUE, response |-> aiGeneratedDocs,
                result |-> IF writeOk THEN "written" ELSE "write_failed",
                after |-> content'[inv.path]]}
    /\ UNCHANGED <<policy, configFile, tree, pc, ignorePatterns, readdirPending,
                   statPending, enumerated, checked, invoked, requests>>

NextWith(responses) ==
    \/ Startup
    \/ \E dir \in DOMAIN readdirPending : ReaddirErr(dir)
    \/ \E dir \in DOMAIN readdirPending : ReaddirOk(dir)
    \/ \E e \in DOMAIN statPending : StatErr(e[1], e[2])
    \/ \E e \in DOMAIN statPending : StatDirectory(e[1], e[2])
    \/ \E e \in DOMAIN statPending : StatNoMatch(e[1], e[2])
    \/ \E e \in DOMAIN statPending, readOk \in BOOLEAN : StatFile(e[1], e[2], readOk)
    \/ \E inv \in invocations : BackendErr(inv)
    \/ \E inv \in invocations, r \in responses, writeOk \in BOOLEAN :
          BackendOk(inv, r, writeOk)

----------------------------------------------------------------------------
(* Specifications *)

Policies == {"Replace", "Prepend"}

\* --- the walk: small trees, a few configurations, two backend answers ---

A_JS == <<"a", ".", "j", "s">>
B_TS == <<"b", ".", "t", "s">>
C_TS == <<"c", ".", "t", "s">>
N_MD == <<"n", ".", "m", "d">>
K_JS == <<"k", ".", "j", "s">>
S_JS == <<"s", ".", "j", "s">>
D == <<"d">>
E == <<"e">>

TreeSiblings ==
    {Node(Root, A_JS, "file"), Node(Root, B_TS, "file"), Node(Root, N_MD, "file")}

TreeNested ==
    {Node(Root, D, "dir"),
     Node(PathJoin(Root, D), A_JS, "file"),
     Node(PathJoin(Root, D), E, "dir"),
     Node(PathJoin(PathJoin(Root, D), E), C_TS, "file"),
     Node(Root, K_JS, "dir"),
     Node(Root, S_JS, "other")}

WalkTrees == {TreeSiblings, TreeNested}

WalkConfigs ==
    {NoConfig, BadConfig,
     ConfigText(<<"r">>),
     ConfigText(<<SEP, "e">>),
     ConfigText(<<HASH, "d", NL, ".", "t", "s", NL>>)}

WalkContents == {<<"c">>}

WalkResponses == {<<"a">>, <<"a", NL, "b", NL, NL>>}

Init == InitWith(Policies, WalkConfigs, WalkTrees, WalkContents)
Next == NextWith(WalkResponses)
Spec == Init /\ [][Next]_vars

\* the event loop runs every callback that is ready, and every backend call
\* is assumed to return or raise
FairSpec == Init /\ [][Next]_vars /\ WF_vars(Next)

\* --- loading: every configuration text up to MaxCfgLen over a small alphabet ---

MaxCfgLen == 4
CfgChars == {"a", HASH, SP, NL}

AH_JS == <<"a", HASH, ".", "j", "s">>
AA == <<"a", "a">>
HA == <<HASH, "a">>

TreeLoad ==
    {Node(Root, AH_JS, "file"),
     Node(Root, AA, "dir"),
     Node(PathJoin(Root, AA), HA, "file")}

LoadConfigs == {NoConfig} \cup {ConfigText(t) : t \in SeqsUpTo(CfgChars, MaxCfgLen)}

InitLoad == InitWith({"Prepend"}, LoadConfigs, {TreeLoad}, WalkContents)
NextLoad == NextWith({<<"a">>})
SpecLoad == InitLoad /\ [][NextLoad]_vars

\* --- annotating: every backend answer up to MaxRespLen over a small alphabet ---

MaxRespLen == 5
RespChars == {"a", "b", NL}

TreeAnnotate ==
    {Node(Root, A_JS, "file"),
     Node(Root, D, "dir"),
     Node(PathJoin(Root, D), N_MD, "file")}

AnnotateContents == {<<>>, <<"c">>, <<"c", NL, "d">>}

InitAnnotate == InitWith(Policies, {NoConfig}, {TreeAnnotate}, AnnotateContents)
NextAnnotate == NextWith(SeqsUpTo(RespChars, MaxRespLen))
SpecAnnotate == InitAnnotate /\ [][NextAnnotate]_vars

----------------------------------------------------------------------------
(* Vocabulary of the properties *)

\* p occurs in s as a contiguous run of characters
OccursIn(p, s) ==
    \E k \in 0..(Len(s) - Len(p)) : \A j \in 1..Len(p) : s[k + j] = p[j]

SomePatternOccursIn(s) ==
    \E i \in DOMAIN ignorePatterns : OccursIn(ignorePatterns[i], s)

\* the entry name of a path of the tree
NameOf(p) == (CHOOSE n \in tree : PathJoin(n.parent, n.name) = p).name
ParentOf(p) == (CHOOSE n \in tree : PathJoin(n.parent, n.name) = p).parent

HasSuffix(name, suffix) ==
    /\ Len(name) >= Len(suffix)
    /\ \A j \in 1..Len(suffix) : name[Len(name) - Len(suffix) + j] = suffix[j]

RecognizedName(name) == HasSuffix(name, JS) \/ HasSuffix(name, TS)

FsFailure == \E l \in log : l.kind \in {"readdir_error", "stat_error"}

LineCount(text) == Cardinality({i \in 1..Len(text) : text[i] = NL}) + 1

----------------------------------------------------------------------------
(* C1: for every path the walker hands to shouldIgnore, the result is true
   exactly when some loaded pattern occurs in the path as a contiguous
   substring; with no pattern loaded the result is false. *)
C1_ShouldIgnoreIffSubstring ==
    \A c \in checked : c.ignored <=> SomePatternOccursIn(c.path)

C1_Witness ==
    /\ ignorePatterns # <<>>
    /\ \E c1, c2 \in checked : c1.ignored /\ ~c2.ignored

(* C2: addDocumentation is never invoked on a path in which a pattern occurs,
   nor on an entry whose name ends in neither ".js" nor ".ts". *)
C2_NeverAnnotatesIgnoredOrUnrecognized ==
    \A p \in DOMAIN invoked :
        invoked[p] > 0 => ~SomePatternOccursIn(p) /\ RecognizedName(NameOf(p))

C2_Witness ==
    /\ \E p \in DOMAIN invoked : invoked[p] > 0
    /\ \E c \in checked : c.ignored /\ RecognizedName(NameOf(c.path))
    /\ \E c \in checked :
          /\ ~c.ignored /\ ~RecognizedName(NameOf(c.path))
          /\ KindOf(tree, c.path) = "file"
          /\ statPending[<<ParentOf(c.path), NameOf(c.path)>>] = 0

(* C3: in a run where no directory listing and no status lookup fails, every
   subdirectory whose full path is not ignored eventually has readdir issued
   on it, at every depth. *)
AllDirectoriesEnumerated ==
    \A p \in Paths(tree) :
        (KindOf(tree, p) = "dir" /\ ~SomePatternOccursIn(p)) => enumerated[p] > 0

C3_EveryDirectoryEnumerated ==
    <>(pc = "crashed" \/ FsFailure \/ (pc = "running" /\ AllDirectoriesEnumerated))

C3_Witness ==
    /\ pc = "running" /\ ~FsFailure /\ AllDirectoriesEnumerated
    /\ \E n \in tree : n.kind = "dir" /\ n.parent # Root
                       /\ enumerated[PathJoin(n.parent, n.name)] > 0
    /\ \E c \in checked : c.ignored

(* C4: Replace policy, response of n > 2 lines, no step fails: the file holds
   exactly lines 2..n-2 of the response joined by "\n" (the empty string when
   n = 3), whatever it held before. *)
C4_ReplaceKeepsMiddleLines ==
    \A f \in finished :
        (policy = "Replace" /\ f.result = "written" /\ LineCount(f.response) > 2) =>
            LET n == LineCount(f.response) IN
            /\ f.after = Join(SubSeq(Split(f.response), 2, n - 2))
            /\ content[f.path] = f.after
            /\ (n = 3 => f.after = <<>>)

C4_Witness ==
    \E f \in finished :
        /\ policy = "Replace" /\ f.result = "written"
        /\ LineCount(f.response) = 5
        /\ f.after # <<>> /\ f.before # <<>>

(* C5 as stated: Replace policy, response of exactly two lines: the file still
   holds the content it had before and a warning is logged. *)
C5_Original_TwoLinesLeaveFileUnchanged ==
    \A f \in finished :
        (policy = "Replace" /\ f.result = "written" /\ LineCount(f.response) = 2) =>
            /\ f.after = f.before
            /\ LogEntry("too_short", f.path) \in log

(* C5 amended: Replace policy, response of exactly two lines: a warning is
   logged, the trim is skipped and the file is overwritten with the whole
   two-line response. *)
C5_TwoLinesWrittenUntrimmed ==
    \A f \in finished :
        (policy = "Replace" /\ f.result = "written" /\ LineCount(f.response) = 2) =>
            /\ f.after = f.response
            /\ content[f.path] = f.response
            /\ LogEntry("too_short", f.path) \in log

C5_Witness ==
    \E f \in finished :
        /\ policy = "Replace" /\ f.result = "written"
        /\ LineCount(f.response) = 2
        /\ f.before # f.response /\ f.before # <<>>

(* C6: Prepend policy, no step fails: the file holds "/*\n" + R + "\n*/\n\n" + C
   for the response R and the original content C, so C is its suffix. *)
C6_PrependKeepsOriginal ==
    \A f \in finished :
        (policy = "Prepend" /\ f.result = "written") =>
            LET r == Len(f.response)
                c == Len(f.before)
                a == f.after
            IN
            /\ content[f.path] = a
            /\ Len(a) = 3 + r + 5 + c
            /\ a[1] = "/" /\ a[2] = "*" /\ a[3] = NL
            /\ \A j \in 1..r : a[3 + j] = f.response[j]
            /\ a[r + 4] = NL /\ a[r + 5] = "*" /\ a[r + 6] = "/"
            /\ a[r + 7] = NL /\ a[r + 8] = NL
            /\ \A j \in 1..c : a[r + 8 + j] = f.before[j]

C6_Witness ==
    \E f \in finished :
        /\ policy = "Prepend" /\ f.result = "written"
        /\ Len(f.response) > 1 /\ Len(f.before) > 1

(* C7: a backend error for one eligible file does not prevent an eligible
   sibling in the same directory from being submitted and rewritten, in any
   interleaving: once the first has failed at the backend, the sibling's stat
   callback can still start its invocation, its pending request can still be
   answered and written, and an invocation of it that ended "written" has
   left the file rewritten. *)
Siblings(f) ==
    {n \in tree : /\ n.parent = ParentOf(f.path)
                  /\ PathJoin(n.parent, n.name) # f.path
                  /\ n.kind = "file"
                  /\ RecognizedName(n.name)
                  /\ ~SomePatternOccursIn(PathJoin(n.parent, n.name))}

SiblingNotPrevented(n) ==
    LET g == PathJoin(n.parent, n.name) IN
    \/ /\ statPending[<<n.parent, n.name>>] > 0
       /\ ENABLED StatFile(n.parent, n.name, TRUE)
    \/ LogEntry("stat_error", g) \in log
    \/ \E inv \in invocations :
          /\ inv.path = g
          /\ requests[g] > 0
          /\ ENABLED BackendOk(inv, <<"a">>, TRUE)
    \/ \E d \in finished :
          /\ d.path = g
          /\ d.result = "written" =>
                /\ content[g] = d.after
                /\ d.after # d.before
                /\ LogEntry("added", g) \in log
          /\ d.answered => requests[g] > 0

C7_BackendErrorSparesSiblings ==
    \A f \in finished :
        f.result = "backend_failed" => \A n \in Siblings(f) : SiblingNotPrevented(n)

C7_Witness ==
    \E f, d \in finished :
        /\ f.result = "backend_failed"
        /\ d.result = "written"
        /\ d.path # f.path
        /\ ParentOf(d.path) = ParentOf(f.path)
        /\ content[d.path] # d.before

(* C8 as stated: the loaded patterns are the lines of the file that are not
   blank and do not begin with "#", each with its leading and trailing
   whitespace removed, in file order. *)
NotBlank(line) == \E i \in 1..Len(line) : ~IsSpace(line[i])
BeginsWithHash(line) == Len(line) > 0 /\ line[1] = HASH
FirstVisibleIsHash(line) ==
    \E i \in 1..Len(line) :
        /\ line[i] = HASH
        /\ \A j \in 1..(i - 1) : IsSpace(line[j])

StatedKeep(line) == NotBlank(line) /\ ~BeginsWithHash(line)
AmendedKeep(line) == NotBlank(line) /\ ~FirstVisibleIsHash(line)

C8_Original_ExcludesBlankAndHashPrefixed ==
    (pc = "running" /\ configFile.exists) =>
        ignorePatterns = TrimAll(SelectSeq(Split(configFile.text), StatedKeep))

(* C8 amended: the loaded patterns are the lines of the file that are not
   blank and whose first non-whitespace character is not "#", each with its
   leading and trailing whitespace removed, in file order. *)
C8_ExcludesBlankAndCommentLines ==
    (pc = "running" /\ configFile.exists) =>
        ignorePatterns = TrimAll(SelectSeq(Split(configFile.text), AmendedKeep))

C8_Witness ==
    /\ pc = "running" /\ configFile.exists
    /\ Len(ignorePatterns) > 0
    /\ \E i \in 1..Len(Split(configFile.text)) :
          BeginsWithHash(Split(configFile.text)[i])
    /\ \E i \in 1..Len(Split(configFile.text)) :
          ~NotBlank(Split(configFile.text)[i])

(* C9: with .ignoreconfig absent, loading raises no error and yields the empty
   pattern list, and the walk starts and skips no entry. *)
C9_MissingConfigLoadsNothing ==
    (pc # "init" /\ ~configFile.exists) =>
        /\ pc = "running"
        /\ ignorePatterns = <<>>
        /\ enumerated[Root] > 0
        /\ \A c \in checked : ~c.ignored

C9_Witness ==
    /\ ~configFile.exists
    /\ pc = "running"
    /\ \A n \in tree : [path |-> PathJoin(n.parent, n.name), ignored |-> FALSE] \in checked
    /\ \E f \in finished : f.result = "written"

(* C10: every path is submitted to the backend at most once in a run. *)
C10_AtMostOneRequestPerPath ==
    \A p \in DOMAIN requests : requests[p] <= 1

C10_Witness ==
    /\ \E p, q \in DOMAIN requests : p # q /\ requests[p] = 1 /\ requests[q] = 1
    /\ \E n \in tree : n.kind = "dir" /\ enumerated[PathJoin(n.parent, n.name)] > 0
    /\ invocations = {}

(* C11: once the pattern list has been loaded, no step of the walk, of
   shouldIgnore or of addDocumentation changes it. *)
C11_PatternsNeverChangeAfterLoad ==
    [][pc = "running" => ignorePatterns' = ignorePatterns]_vars

C11_Witness ==
    /\ pc = "running"
    /\ Len(ignorePatterns) > 0
    /\ \E c \in checked : c.ignored
    /\ \E f \in finished : f.result = "written"

(* C12: an addDocumentation invocation that fails at the read step or at the
   backend call performs no write (the file holds what it held before), logs
   the failure with the file path, and leaves the process running. *)
C12_FailedInvocationLeavesFile ==
    \A f \in finished :
        f.result \in {"read_failed", "backend_failed"} =>
            /\ f.after = f.before
            /\ content[f.path] = f.before
            /\ LogEntry("process_error", f.path) \in log
            /\ LogEntry("added", f.path) \notin log
            /\ pc = "running"

C12_Witness ==
    \E f, g \in finished :
        /\ f.result = "read_failed"
        /\ g.result = "backend_failed"
        /\ \E h \in finished : h.result = "written"

----------------------------------------------------------------------------
(* Vocabulary of the traversal properties *)

\* q is p or lies in the subtree of p
Under(q, p) ==
    \/ q = p
    \/ /\ Len(q) > Len(p)
       /\ \A j \in 1..Len(p) : q[j] = p[j]
       /\ q[Len(p) + 1] = SEP

\* the process died at startup, before the walk began
NeverStarted == pc = "crashed" /\ enumerated[Root] = 0

\* the walk has started and no callback and no backend answer is outstanding
NothingPending ==
    /\ pc = "running"
    /\ \A p \in DOMAIN readdirPending : readdirPending[p] = 0
    /\ \A e \in DOMAIN statPending : statPending[e] = 0
    /\ invocations = {}

\* no lookup on p's own chain failed: the listing of every directory above it
\* and the status lookup of p and of every directory above it
OwnLookupsSucceeded(p) ==
    \A q \in Paths(tree) :
        Under(p, q) =>
            /\ q # p => LogEntry("readdir_error", q) \notin log
            /\ LogEntry("stat_error", q) \notin log

\* the entry was classified and handled as its kind demands
Handled(n) ==
    LET p == PathJoin(n.parent, n.name) IN
    IF n.kind = "dir" THEN enumerated[p] > 0
    ELSE IF RecognizedName(n.name) THEN invoked[p] > 0
    ELSE invoked[p] = 0

(* C13: when listing a directory D fails no entry of D is visited, and every
   eligible non-ignored file outside D's subtree whose own lookups succeed is
   still submitted to addDocumentation. *)
ListingFailed(d) == LogEntry("readdir_error", d) \in log

EntriesOfFailedListingUntouched ==
    \A n \in tree :
        ListingFailed(n.parent) =>
            LET p == PathJoin(n.parent, n.name) IN
            /\ statPending[<<n.parent, n.name>>] = 0
            /\ \A c \in checked : c.path # p
            /\ enumerated[p] = 0
            /\ invoked[p] = 0

FilesOutsideFailedListingSubmitted ==
    \A d \in Paths(tree) :
        ListingFailed(d) =>
            \A n \in tree :
                LET p == PathJoin(n.parent, n.name) IN
                (/\ n.kind = "file"
                 /\ RecognizedName(n.name)
                 /\ ~SomePatternOccursIn(p)
                 /\ ~Under(p, d)
                 /\ OwnLookupsSucceeded(p)) => invoked[p] > 0

C13_ListingFailureIsLocal ==
    /\ []EntriesOfFailedListingUntouched
    /\ <>(NeverStarted \/ (NothingPending /\ FilesOutsideFailedListingSubmitted))

C13_Witness ==
    /\ NothingPending
    /\ \E d \in Paths(tree) :
          /\ d # Root
          /\ ListingFailed(d)
          /\ \E n \in tree : n.parent = d
          /\ \E f \in finished : ~Under(f.path, d) /\ f.result = "written"
                                 /\ ParentOf(f.path) = ParentOf(d)

(* C14: when the status lookup of an entry fails, that entry is neither
   recursed into nor submitted, and every other entry of the same directory
   that is not ignored is still classified and handled. *)
LookupFailed(p) == LogEntry("stat_error", p) \in log

FailedEntrySkipped ==
    \A n \in tree :
        LET p == PathJoin(n.parent, n.name) IN
        LookupFailed(p) => enumerated[p] = 0 /\ invoked[p] = 0

SiblingsOfFailedEntryHandled ==
    \A n, m \in tree :
        LET p == PathJoin(n.parent, n.name)
            q == PathJoin(m.parent, m.name)
        IN
        (/\ LookupFailed(p)
         /\ m.parent = n.parent /\ q # p
         /\ ~SomePatternOccursIn(q)
         /\ ~LookupFailed(q)) => Handled(m)

C14_LookupFailureSkipsOneEntry ==
    /\ []FailedEntrySkipped
    /\ <>(NeverStarted \/ (NothingPending /\ SiblingsOfFailedEntryHandled))

C14_Witness ==
    /\ NothingPending
    /\ \E n, m \in tree :
          /\ n.parent = m.parent
          /\ LookupFailed(PathJoin(n.parent, n.name))
          /\ m.kind = "file"
          /\ \E f \in finished :
                f.path = PathJoin(m.parent, m.name) /\ f.result = "written"

(* C15: a directory entry whose full path shouldIgnore flags is never listed
   and never looked up, and no file in its subtree, at any depth, is ever
   read, submitted to the backend or rewritten.  (The starting directory is
   never handed to shouldIgnore; the claim is about the entries the walk
   meets.) *)
NothingBelowProcessed(d) ==
    \A n \in tree :
        LET q == PathJoin(n.parent, n.name) IN
        (Under(q, d) /\ q # d) =>
            /\ statPending[<<n.parent, n.name>>] = 0
            /\ invoked[q] = 0
            /\ requests[q] = 0
            /\ \A inv \in invocations : inv.path # q
            /\ \A f \in finished : f.path # q
            /\ \A l \in log : l.path # q

NeverListed(d) == enumerated[d] = 0 /\ readdirPending[d] = 0

NeverLookedUp(n) == statPending[<<n.parent, n.name>>] = 0

IgnoredDirectories ==
    {n \in tree : n.kind = "dir" /\ SomePatternOccursIn(PathJoin(n.parent, n.name))}

C15_IgnoredDirectoryNeverEntered ==
    pc = "running" =>
        \A n \in IgnoredDirectories :
            /\ NeverListed(PathJoin(n.parent, n.name))
            /\ NeverLookedUp(n)
            /\ NothingBelowProcessed(PathJoin(n.parent, n.name))

C15_Witness ==
    /\ NothingPending
    /\ \E d \in IgnoredDirectories :
          /\ [path |-> PathJoin(d.parent, d.name), ignored |-> TRUE] \in checked
          /\ \E n \in tree : /\ n.parent = PathJoin(d.parent, d.name)
                              /\ n.kind = "file" /\ RecognizedName(n.name)
    /\ \E f \in finished : f.result = "written"

(* C16: a file's content changes only in a step that ends an addDocumentation
   invocation on that very path, and only that path changes; ignored paths,
   names without a recognized suffix and directories are never written; and
   no two invocations in flight hold the same path. *)
InFlightPathsDistinct ==
    \A i1, i2 \in invocations : i1.path = i2.path => i1 = i2

WriteFrame ==
    \A p \in Paths(tree) :
        content'[p] # content[p] =>
            /\ \E inv \in invocations :
                  /\ inv.path = p
                  /\ invocations \ invocations' = {inv}
            /\ invoked[p] > 0
            /\ KindOf(tree, p) # "dir"
            /\ ~SomePatternOccursIn(p)
            /\ RecognizedName(NameOf(p))
            /\ \A q \in Paths(tree) : q # p => content'[q] = content[q]

C16_OnlyInvokedFilesWritten ==
    /\ []InFlightPathsDistinct
    /\ [][WriteFrame]_vars

C16_Witness ==
    /\ NothingPending
    /\ \E f \in finished : f.result = "written" /\ content[f.path] # f.before
    /\ \E c \in checked : c.ignored /\ KindOf(tree, c.path) = "file"
    /\ \E n \in tree : /\ n.kind = "file" /\ ~RecognizedName(n.name)
                       /\ [path |-> PathJoin(n.parent, n.name), ignored |-> FALSE]
                              \in checked

(* C17: every path addDocumentation is invoked on is a regular file: never a
   directory, whatever its name, and never an entry of another kind. *)
C17_OnlyRegularFilesAnnotated ==
    \A p \in DOMAIN invoked : invoked[p] > 0 => KindOf(tree, p) = "file"

(* C18: addDocumentation invocations are not serialized: every invocation
   whose backend request is outstanding stays suspended on its own, whatever
   else is in flight, and each of them can be answered next (so writes can land
   in either order); a pending status lookup of an eligible entry can start a
   further invocation while others are in flight.  The witness is a state with
   two invocations in flight at once, in different directories. *)
EndedAfterRequest(p) ==
    {f \in finished : f.path = p /\ f.result # "read_failed"}

C18_InvocationsAwaitIndependently ==
    /\ \A p \in DOMAIN requests :
          requests[p] > Cardinality(EndedAfterRequest(p)) =>
              \E inv \in invocations : inv.path = p
    /\ \A inv \in invocations :
          /\ ENABLED BackendOk(inv, <<"a">>, TRUE)
          /\ ENABLED BackendErr(inv)
    /\ \A n \in tree :
          (statPending[<<n.parent, n.name>>] > 0 /\ n.kind = "file"
              /\ RecognizedName(n.name)) =>
              ENABLED StatFile(n.parent, n.name, TRUE)

C18_Witness ==
    \E i1, i2 \in invocations :
        /\ i1.path # i2.path
        /\ ParentOf(i1.path) # ParentOf(i2.path)
        /\ KindOf(tree, i1.path) = "file" /\ KindOf(tree, i2.path) = "file"

(* C19: in a run where no directory listing and no status lookup fails, every
   non-ignored regular file whose name ends in ".js" or ".ts" is eventually
   submitted to addDocumentation, and never more than once. *)
EligibleFiles ==
    {n \in tree : /\ n.kind = "file"
                  /\ RecognizedName(n.name)
                  /\ ~SomePatternOccursIn(PathJoin(n.parent, n.name))}

AllEligibleFilesSubmittedOnce ==
    \A n \in EligibleFiles : invoked[PathJoin(n.parent, n.name)] = 1

C19_EveryEligibleFileSubmittedOnce ==
    /\ [](\A p \in DOMAIN invoked : invoked[p] <= 1)
    /\ <>(NeverStarted \/ FsFailure \/ (pc = "running" /\ AllEligibleFilesSubmittedOnce))

C19_Witness ==
    /\ pc = "running" /\ ~FsFailure
    /\ AllEligibleFilesSubmittedOnce
    /\ \E n \in EligibleFiles : n.parent # Root /\ HasSuffix(n.name, TS)
    /\ \E n \in EligibleFiles : HasSuffix(n.name, JS)

(* C20: on a finite tree, under fair scheduling of the callbacks and with every
   backend call returning or raising, the run reaches and stays in a state
   where no listing, lookup or invocation is pending and every started
   invocation has ended with its file written or its error logged. *)
EveryInvocationEnded ==
    /\ \A p \in DOMAIN invoked :
          invoked[p] = Cardinality({f \in finished : f.path = p})
    /\ \A f \in finished :
          IF f.result = "written"
          THEN LogEntry("added", f.path) \in log /\ content[f.path] = f.after
          ELSE LogEntry("process_error", f.path) \in log

C20_RunReachesQuiescence ==
    <>[](NeverStarted \/ (NothingPending /\ EveryInvocationEnded))

C20_Witness ==
    /\ NothingPending
    /\ EveryInvocationEnded
    /\ \E f, g \in finished : f.result = "written" /\ g.result # "written"
    /\ \E n \in tree : n.kind = "dir" /\ n.parent # Root
                       /\ enumerated[PathJoin(n.parent, n.name)] > 0

====
